---- MODULE Spec2Model ----
(***************************************************************************)
(* The session-routing gate of src/main.py: create_jwt, verify_jwt and the *)
(* /check_status handler, with the allowlist table and the clock as the    *)
(* environment.                                                            *)
(*                                                                         *)
(* A Python value that may be None (or a key that may be missing from a    *)
(* dict) is a set with at most one element: {} is None/missing, {x} is x.  *)
(*                                                                         *)
(* The jose library is not part of the repository.  Its calls are modelled *)
(* by what the call sites ask of it: jwt.encode signs the payload and      *)
(* carries the extra headers, jwt.decode with a key checks the algorithm,  *)
(* the signature and the payload's exp claim, and jwt.decode with          *)
(* verify_signature disabled returns the payload of any well-formed token. *)
(***************************************************************************)
EXTENDS Integers, FiniteSets, Sequences, TLC

\* ---------------------------------------------------------------- bounds
\* The clock advances MaxTicks times.
MaxTicks == 3

\* ------------------------------------------------------------- constants
\* timedelta(hours=24) in create_jwt
ExpiryHours == 24
\* max_age of the auth_token cookie, in seconds
CookieMaxAge == 86400
\* The clock is counted in hours and advances half an expiry period at a time.
TickHours == ExpiryHours \div 2

JWT_SECRET == "JWT_SECRET"
APP_URL == "https://www.app.com"

\* Concurrent requests, the emails that occur, and the keys tokens are signed with.
Requests == {"r1", "r2"}
Emails == {"a@x.com", "b@x.com"}
ForeignKey == "foreign-key"

None == {}
Some(x) == {x}
The(s) == CHOOSE x \in s : TRUE

\* ------------------------------------------------------------------ state
VARIABLES
    now,        \* the clock (datetime.utcnow), in hours
    allowlist,  \* the emails in the email_allowlist table
    secret,     \* the module-level JWT_SECRET
    reqs        \* each request: its position and its locals

vars == <<now, allowlist, secret, reqs>>

\* ---------------------------------------------------------------- tokens
\* A JWT payload (a dict): each key present or missing.
Payload(a, v, e, x) == [authenticated |-> a, valid |-> v, email |-> e, exp |-> x]
EmptyPayload == Payload(None, None, None, None)

\* A token string: empty, not a JWT at all, or header.payload.signature.
\* key is the key the signature was made with ("" for none).
Jwt(alg, key, hexp, p) ==
    [kind |-> "jwt", alg |-> alg, key |-> key, header_exp |-> hexp, payload |-> p]
EmptyToken ==
    [kind |-> "empty", alg |-> "", key |-> "", header_exp |-> None, payload |-> EmptyPayload]
MalformedToken ==
    [kind |-> "malformed", alg |-> "", key |-> "", header_exp |-> None, payload |-> EmptyPayload]

\* Payloads a caller may present: session claims with and without an expiry,
\* identity-provider claims carrying an email, and the empty object.
ClaimPayloads ==
    {Payload(Some(a), Some(v), None, x) :
        a \in BOOLEAN, v \in BOOLEAN, x \in {None, Some(TickHours)}}
IdentityPayloads ==
    {Payload(None, None, Some(e), None) : e \in Emails \cup {""}}
    \cup {Payload(Some(TRUE), Some(TRUE), Some(e), Some(TickHours)) : e \in Emails}
Payloads == ClaimPayloads \cup IdentityPayloads \cup {EmptyPayload}

Signatures ==
    { <<"HS256", JWT_SECRET>>, <<"HS256", ForeignKey>>, <<"none", "">> }

Tokens ==
    {EmptyToken, MalformedToken}
    \cup {Jwt(s[1], s[2], None, p) : s \in Signatures, p \in Payloads}

\* ----------------------------------------------------------- Token Codec
\* create_jwt(payload) at time t: the expiry goes into the JWT headers.
create_jwt(payload, t) ==
    Jwt("HS256", secret, Some(t + ExpiryHours), payload)

\* jwt.decode(token, JWT_SECRET, algorithms=['HS256']) at time t: the
\* payload, or an exception.
SignatureVerifies(token) ==
    /\ token.kind = "jwt"
    /\ token.alg = "HS256"
    /\ token.key = secret

ExpClaimValid(payload, t) ==
    payload.exp = None \/ The(payload.exp) >= t

\* verify_jwt(token) at time t: the payload, or None on any exception.
verify_jwt(token, t) ==
    IF SignatureVerifies(token) /\ ExpClaimValid(token.payload, t)
    THEN Some(token.payload)
    ELSE None

\* ---------------------------------------------------- check_status, parts
Login == [route |-> "/login"]
Waitlist == [route |-> "/waitlist"]
App == [url |-> APP_URL]

\* `if not token`
TokenMissing(token) == token.kind = "empty"

\* `if jwt_payload`: None and the empty dict are both falsy.
PayloadTruthy(jwt_payload) ==
    jwt_payload # None /\ The(jwt_payload) # EmptyPayload

\* jwt_payload.get(k) in a condition, for the boolean claims.
Get(field) == field = Some(TRUE)

\* Mutant: the valid claim is not looked at.
FastPathContentAuthOnly(p) ==
    IF Get(p.authenticated) THEN App ELSE Login

\* The routing of a trusted claim.
FastPathContent(p) ==
    IF Get(p.authenticated) /\ Get(p.valid) THEN App
    ELSE IF Get(p.authenticated) /\ ~Get(p.valid) THEN Waitlist
    ELSE Login

\* jwt.decode(token, options={"verify_signature": False})['email']:
\* the email, or None when the decode or the subscript raises.
DecodeEmail(token) ==
    IF token.kind = "jwt" THEN token.payload.email ELSE None

\* Mutant: only a missing email is refused, not an empty one.
EmailIsNone(user_email) == user_email = None

\* `if not user_email`
EmailMissing(user_email) == The(user_email) = ""

\* The key of the allowlist lookup.
QueryKey(user_email) == user_email

\* Mutant: the .eq('email', key) filter is dropped.
LookupNoFilter(table, key) == {[email |-> e] : e \in table}

\* supabase.table('email_allowlist').select('email').eq('email', key): rows.
Lookup(table, key) == {[email |-> e] : e \in table \cap {key}}

UserAuthenticated == TRUE
\* Mutant: any answer counts as membership.
UserValidAlways(data) == TRUE

UserValid(data) == Cardinality(data) > 0

MintedClaim(user_authenticated, user_valid) ==
    Payload(Some(user_authenticated), Some(user_valid), None, None)

SlowPathContent(user_authenticated, user_valid) ==
    IF user_authenticated /\ user_valid THEN App
    ELSE IF user_authenticated /\ ~user_valid THEN Waitlist
    ELSE Login

SetCookie(new_token) ==
    Some([key |-> "auth_token", value |-> new_token, httponly |-> TRUE,
          secure |-> TRUE, samesite |-> "strict", max_age |-> CookieMaxAge])

\* Mutant: the trusted branch reissues the claim as a cookie.
FastPathCookieReissue(p) == SetCookie(create_jwt(p, now))

\* The cookie the trusted branch sets: none.
FastPathCookie(p) == None

\* --------------------------------------------------------------- requests
Idle ==
    [pc |-> "idle", token |-> EmptyToken, at |-> 0, jwt_payload |-> None,
     user_email |-> None, query |-> None, data |-> None, new_token |-> None,
     content |-> None, cookie |-> None]

Init ==
    /\ now = 0
    /\ allowlist \in SUBSET Emails
    /\ secret = JWT_SECRET
    /\ reqs = [r \in Requests |-> Idle]

\* Tokens a caller can hold: hand-made ones and cookies the service has set.
IssuedTokens ==
    {The(reqs[s].new_token) : s \in {q \in Requests : reqs[q].new_token # None}}

\* Mutant: user_email is kept in one module-level variable, which the latest
\* request still waiting for its lookup has overwritten.
SharedQuery(r) ==
    IF \E s \in Requests \ {r} : reqs[s].pc = "oracle"
    THEN reqs[CHOOSE s \in Requests \ {r} : reqs[s].pc = "oracle"].query
    ELSE reqs[r].query

\* The key request r's lookup was sent with: r's own local user_email.
LocalQuery(r) == reqs[r].query

\* Lines 83-112: from the request's arrival to the allowlist lookup being sent,
\* or to the response when the handler returns before it.
Arrive(req, token, t) ==
    LET got == [req EXCEPT !.token = token, !.at = t]
        jwt_payload == verify_jwt(token, t)
        user_email == DecodeEmail(token)
    IN  IF TokenMissing(token)
        THEN [got EXCEPT !.pc = "done", !.content = Some(Login)]
        ELSE IF PayloadTruthy(jwt_payload)
        THEN [got EXCEPT !.pc = "done", !.jwt_payload = jwt_payload,
                         !.content = Some(FastPathContent(The(jwt_payload))),
                         !.cookie = FastPathCookie(The(jwt_payload))]
        ELSE IF user_email = None
        THEN [got EXCEPT !.pc = "done", !.jwt_payload = jwt_payload,
                         !.content = Some(Login)]
        ELSE IF EmailMissing(user_email)
        THEN [got EXCEPT !.pc = "done", !.jwt_payload = jwt_payload,
                         !.user_email = user_email, !.content = Some(Login)]
        ELSE [got EXCEPT !.pc = "oracle", !.jwt_payload = jwt_payload,
                         !.user_email = user_email,
                         !.query = QueryKey(user_email)]

\* Lines 113-132: the lookup's rows arrive, the claim is minted and the
\* response carries the cookie.
Answered(req, rows, t) ==
    LET user_authenticated == UserAuthenticated
        user_valid == UserValid(rows)
        new_token == create_jwt(MintedClaim(user_authenticated, user_valid), t)
    IN  [req EXCEPT !.pc = "done", !.data = Some(rows),
                    !.new_token = Some(new_token),
                    !.content = Some(SlowPathContent(user_authenticated, user_valid)),
                    !.cookie = SetCookie(new_token)]

\* Line 113 raises: nothing catches it, the handler ends with the exception.
Failed(req) == [req EXCEPT !.pc = "raised"]

\* The handler run from start to end on its own: token, the time t, and the
\* table the lookup reads.
check_status(token, t, table) ==
    LET sent == Arrive(Idle, token, t)
    IN  IF sent.pc = "oracle"
        THEN Answered(sent, Lookup(table, The(sent.query)), t)
        ELSE sent

Receive(r) ==
    /\ reqs[r].pc = "idle"
    /\ \E token \in Tokens \cup IssuedTokens :
          reqs' = [reqs EXCEPT ![r] = Arrive(reqs[r], token, now)]
    /\ UNCHANGED <<now, allowlist, secret>>

OracleAnswer(r) ==
    /\ reqs[r].pc = "oracle"
    /\ reqs' = [reqs EXCEPT ![r] =
                   Answered(reqs[r], Lookup(allowlist, The(LocalQuery(r))), now)]
    /\ UNCHANGED <<now, allowlist, secret>>

OracleFail(r) ==
    /\ reqs[r].pc = "oracle"
    /\ reqs' = [reqs EXCEPT ![r] = Failed(reqs[r])]
    /\ UNCHANGED <<now, allowlist, secret>>

Tick ==
    /\ now < MaxTicks * TickHours
    /\ now' = now + TickHours
    /\ UNCHANGED <<allowlist, secret, reqs>>

\* The table is maintained outside the service.
AllowlistChange ==
    /\ \E e \in Emails :
          allowlist' = IF e \in allowlist THEN allowlist \ {e} ELSE allowlist \cup {e}
    /\ UNCHANGED <<now, secret, reqs>>

Next ==
    \/ \E r \in Requests : Receive(r)
    \/ \E r \in Requests : OracleAnswer(r)
    \/ \E r \in Requests : OracleFail(r)
    \/ Tick
    \/ AllowlistChange

Spec == Init /\ [][Next]_vars

\* ---------------------------------------------------------------- claims
Finished(r) == reqs[r].pc \in {"done", "raised"}
Trusted(r) == PayloadTruthy(reqs[r].jwt_payload)
Recovered(r) == reqs[r].user_email # None /\ reqs[r].user_email # Some("")
Routed(r, zone) == reqs[r].pc = "done" /\ reqs[r].content = Some(zone)
ClaimOf(new_token) ==
    IF new_token = None THEN None ELSE Some(The(new_token).payload)

\* C1: a request with no trusted claim and a recovered non-empty email whose
\* allowlist lookup fails ends with {route: "/login"}, no minted claim and no
\* credential.
C1_FailClosed ==
    \A r \in Requests :
        (~Trusted(r) /\ Recovered(r) /\ reqs[r].pc = "raised") =>
            /\ reqs[r].content = Some(Login)
            /\ reqs[r].new_token = None
            /\ reqs[r].cookie = None

\* An expiry the token carries (as a claim or as a header) that has passed.
Expired(token, t) ==
    \/ token.payload.exp # None /\ The(token.payload.exp) < t
    \/ token.header_exp # None /\ The(token.header_exp) < t

\* C2: a request is routed by its token's own fields only if the token's
\* signature verifies against the service secret and the token has not expired.
C2_TrustGate ==
    \A r \in Requests :
        (Finished(r) /\ Trusted(r)) =>
            /\ SignatureVerifies(reqs[r].token)
            /\ ~Expired(reqs[r].token, reqs[r].at)

\* C3: a token minted at time T carries the expiry T + 24 hours, and presented
\* later than that it is no longer a trusted claim.
C3_MintedExpires ==
    \A r \in Requests :
        (Finished(r) /\ reqs[r].token \in IssuedTokens) =>
            /\ reqs[r].token.header_exp # None
            /\ (reqs[r].at > The(reqs[r].token.header_exp) => reqs[r].jwt_payload = None)

\* C4: a request whose non-empty token verify_jwt accepts is routed by the
\* claim's fields alone (true/true: app, true/false: waitlist, authenticated
\* false: login), queries no allowlist and mints nothing; two requests with the
\* same accepted token get the same outcome.
Accepted(r) ==
    /\ reqs[r].pc # "idle"
    /\ ~TokenMissing(reqs[r].token)
    /\ verify_jwt(reqs[r].token, reqs[r].at) # None

C4_FastPath ==
    /\ \A r \in Requests :
          Accepted(r) =>
              LET p == reqs[r].token.payload
              IN  /\ reqs[r].pc = "done"
                  /\ (p.authenticated = Some(TRUE) /\ p.valid = Some(TRUE)) => Routed(r, App)
                  /\ (p.authenticated = Some(TRUE) /\ p.valid = Some(FALSE)) => Routed(r, Waitlist)
                  /\ p.authenticated = Some(FALSE) => Routed(r, Login)
                  /\ reqs[r].query = None
                  /\ reqs[r].data = None
                  /\ reqs[r].new_token = None
    /\ \A r, s \in Requests :
          (Accepted(r) /\ Accepted(s) /\ reqs[r].token = reqs[s].token) =>
              reqs[r].content = reqs[s].content

C4_Witness ==
    \E r, s \in Requests :
        /\ r # s
        /\ Accepted(r) /\ Accepted(s)
        /\ reqs[r].token = reqs[s].token
        /\ reqs[r].at < reqs[s].at
        /\ Routed(r, Waitlist) /\ Routed(s, Waitlist)

\* C5: a request with no trusted claim and a recovered non-empty email e, once
\* the allowlist has answered for e, mints {authenticated: true, valid: m} with
\* m the membership answer, returns the app for m true and the waitlist for m
\* false, and sets the credential to the minted token; no minted claim has
\* authenticated false.
C5_SlowPath ==
    \A r \in Requests :
        /\ (~Trusted(r) /\ Recovered(r) /\ reqs[r].data # None) =>
              LET m == The(reqs[r].data) # {}
              IN  /\ reqs[r].new_token # None
                  /\ The(reqs[r].new_token).payload.authenticated = Some(TRUE)
                  /\ The(reqs[r].new_token).payload.valid = Some(m)
                  /\ Routed(r, IF m THEN App ELSE Waitlist)
                  /\ reqs[r].cookie # None
                  /\ The(reqs[r].cookie).value = The(reqs[r].new_token)
        /\ reqs[r].new_token # None =>
              The(reqs[r].new_token).payload.authenticated = Some(TRUE)
        /\ (reqs[r].pc = "done" /\ ~Trusted(r) /\ Recovered(r)) => reqs[r].data # None

C5_Witness ==
    \E r, s \in Requests :
        /\ ~Trusted(r) /\ Recovered(r) /\ reqs[r].data = Some({})
        /\ Routed(r, Waitlist)
        /\ ~Trusted(s) /\ Recovered(s) /\ reqs[s].data \notin {None, Some({})}
        /\ Routed(s, App)

\* C6: a response sets the auth_token credential exactly when its request
\* minted a claim; a response that reuses a trusted claim sets none, and a
\* response routing to login sets none.
C6_CredentialIffMinted ==
    \A r \in Requests :
        /\ (reqs[r].cookie # None) <=> (reqs[r].new_token # None)
        /\ reqs[r].cookie # None =>
              /\ The(reqs[r].cookie).value = The(reqs[r].new_token)
              /\ The(reqs[r].cookie).key = "auth_token"
        /\ Trusted(r) => reqs[r].cookie = None
        /\ Routed(r, Login) => reqs[r].cookie = None

C6_Witness ==
    \E r, s \in Requests :
        /\ reqs[r].pc = "done" /\ Trusted(r) /\ reqs[r].cookie = None
        /\ reqs[s].pc = "done" /\ reqs[s].new_token # None /\ reqs[s].cookie # None

\* C7: a request whose token is empty, or has no trusted claim and no non-empty
\* email to decode, is routed to login with no claim minted, no credential set
\* and no allowlist lookup made.
NoIdentity(r) ==
    \/ reqs[r].token.kind = "empty"
    \/ /\ ~PayloadTruthy(verify_jwt(reqs[r].token, reqs[r].at))
       /\ \/ reqs[r].token.kind = "malformed"
          \/ reqs[r].token.payload.email \in {None, Some("")}

C7_NoIdentityLogin ==
    \A r \in Requests :
        (reqs[r].pc # "idle" /\ NoIdentity(r)) =>
            /\ Routed(r, Login)
            /\ reqs[r].new_token = None
            /\ reqs[r].cookie = None
            /\ reqs[r].query = None
            /\ reqs[r].data = None

C7_Witness ==
    \E r, s \in Requests :
        /\ Routed(r, Login) /\ reqs[r].token.kind = "jwt"
        /\ reqs[r].token.payload.email = Some("")
        /\ ~SignatureVerifies(reqs[r].token)
        /\ Routed(s, Login) /\ reqs[s].token.kind = "malformed"

\* C8: verify_jwt applied to a minted token within its validity window returns
\* the minted claim: its authenticated, its valid and its 24-hour expiry.
C8_RoundTrip ==
    \A r \in Requests :
        (reqs[r].new_token # None /\ now <= The(The(reqs[r].new_token).header_exp)) =>
            LET c == verify_jwt(The(reqs[r].new_token), now)
            IN  /\ c # None
                /\ The(c).authenticated = Some(TRUE)
                /\ The(c).valid = Some(The(reqs[r].data) # {})
                /\ The(c).exp = The(reqs[r].new_token).header_exp

\* C9: an email recovered without signature verification is used only as the
\* key of the allowlist lookup, and a request mints a claim only in the step in
\* which the lookup for exactly that email returns: the lookup was pending
\* with that key and the rows are the table's rows for it.
C9_Step ==
    \A r \in Requests :
        /\ (reqs[r].query = None /\ reqs'[r].query # None) =>
              /\ reqs'[r].query = reqs'[r].token.payload.email
              /\ reqs'[r].new_token = None
        /\ (reqs[r].new_token = None /\ reqs'[r].new_token # None) =>
              /\ reqs[r].pc = "oracle"
              /\ reqs[r].query = reqs[r].token.payload.email
              /\ reqs[r].query \notin {None, Some("")}
              /\ reqs'[r].data =
                    Some({[email |-> e] : e \in allowlist \cap reqs[r].token.payload.email})
              /\ The(reqs'[r].new_token).payload.email = None

C9_OracleBeforeMint == [][C9_Step]_vars

C9_Witness ==
    \E r \in Requests :
        /\ reqs[r].new_token # None
        /\ reqs[r].token.payload.email = Some("b@x.com")
        /\ reqs[r].data = Some({[email |-> "b@x.com"]})

\* C10: under any interleaving, a request that finishes has the routing outcome
\* and the minted claim the handler gives when run alone on the same token at
\* the same arrival time with the same lookup result; a step of one request
\* leaves the other requests, the secret and the table as they were.
C10_Step ==
    \A r \in Requests :
        reqs'[r] # reqs[r] =>
            /\ \A s \in Requests \ {r} : reqs'[s] = reqs[s]
            /\ secret' = secret
            /\ allowlist' = allowlist
            /\ reqs'[r].pc = "done" =>
                  LET alone == check_status(reqs'[r].token, reqs'[r].at, allowlist)
                  IN  /\ alone.pc = "done"
                      /\ reqs'[r].content = alone.content
                      /\ ClaimOf(reqs'[r].new_token) = ClaimOf(alone.new_token)

C10_Independent == [][C10_Step]_vars

C10_Witness ==
    \E r, s \in Requests :
        /\ reqs[r].pc = "oracle" /\ reqs[r].query = Some("a@x.com")
        /\ Routed(s, App) /\ reqs[s].query = Some("b@x.com")
        /\ reqs[s].at >= reqs[r].at

====
